---- MODULE Spec2Model ----
(***************************************************************************)
(* WriteSpecTool._execute (superagi/tools/code/write_spec.py).             *)
(*                                                                         *)
(* One execution of the tool is modelled statement by statement.  The      *)
(* collaborators (llm, TokenCounter, resource_manager) are external: each  *)
(* call either returns a value drawn from a small set or raises an         *)
(* Exception whose text is drawn from a small set.  Python strings are TLA+ *)
(* strings; str.replace, str.startswith and the f-string are computed as   *)
(* Python computes them.                                                   *)
(***************************************************************************)
EXTENDS Integers, Sequences, FiniteSets, TLC

(***************************************************************************)
(* Python values.  A value that may be None is a tagged record.            *)
(***************************************************************************)
None == [t |-> "None"]

Str(s) == [t |-> "str", v |-> s]

Num(n) == [t |-> "int", v |-> n]

Dict(d) == [t |-> "dict", d |-> d]

(***************************************************************************)
(* Bounds of the model.                                                    *)
(***************************************************************************)
MaxGoals == 2

MaxTokenSteps == 3

(***************************************************************************)
(* The 100-token reserve of line 86.                                       *)
(***************************************************************************)
Reserve == 100

(***************************************************************************)
(* The prompt literal of lines 67-79, cut at its two placeholders.         *)
(***************************************************************************)
TemplateIntro ==
    "You are a super smart developer who has been asked to make a specification for a program.\n"
    \o "        \n"
    \o "            Your high-level goal is:\n"
    \o "            "

TemplateBody ==
    "\n"
    \o "        \n"
    \o "            Please keep in mind the following when creating the specification:\n"
    \o "            1. Be super explicit about what the program should do, which features it should have, and give details about anything that might be unclear.\n"
    \o "            2. Lay out the names of the core classes, functions, methods that will be necessary, as well as a quick comment on their purpose.\n"
    \o "            3. List all non-standard dependencies that will have to be used.\n"
    \o "        \n"
    \o "            Write a specification for the following task:\n"
    \o "            "

TemplateEnd ==
    "\n"
    \o "            "

PromptTemplate ==
    TemplateIntro \o "{goals}" \o TemplateBody \o "{task}" \o TemplateEnd

SuccessSuffix == "Specification generated and saved successfully"

ErrorPrefix == "Error generating specification: "

(***************************************************************************)
(* str.startswith(prefix)                                                  *)
(***************************************************************************)
StartsWith(s, prefix) ==
    /\ Len(s) >= Len(prefix)
    /\ SubSeq(s, 1, Len(prefix)) = prefix

(***************************************************************************)
(* str.find(sub): the positions (1-based) at which sub occurs in s.        *)
(***************************************************************************)
Occurrences(s, sub) ==
    {i \in 1..(Len(s) - Len(sub) + 1) : SubSeq(s, i, i + Len(sub) - 1) = sub}

Contains(s, sub) == Occurrences(s, sub) # {}

(***************************************************************************)
(* str.replace(old, new), old non-empty: every non-overlapping occurrence  *)
(* of old, scanning left to right, is replaced by new; the replacement     *)
(* text is not scanned again.                                              *)
(***************************************************************************)
RECURSIVE Replace(_, _, _)
Replace(s, old, new) ==
    LET occ == Occurrences(s, old) IN
    IF occ = {}
    THEN s
    ELSE LET i == CHOOSE k \in occ : \A j \in occ : k <= j IN
         SubSeq(s, 1, i - 1) \o new
             \o Replace(SubSeq(s, i + Len(old), Len(s)), old, new)

(***************************************************************************)
(* AgentPromptBuilder.add_list_items_to_string: one numbered line per      *)
(* item, "<i>. <item>\n".                                                  *)
(***************************************************************************)
RECURSIVE ListItemsFrom(_, _)
ListItemsFrom(items, i) ==
    IF i > Len(items)
    THEN ""
    ELSE ToString(i) \o ". " \o items[i] \o "\n" \o ListItemsFrom(items, i + 1)

add_list_items_to_string(items) == ListItemsFrom(items, 1)

(***************************************************************************)
(* Lines 80-81: the two replacements, in the order the code makes them.    *)
(***************************************************************************)
FillPrompt(goal_list, task) ==
    Replace(Replace(PromptTemplate, "{goals}", add_list_items_to_string(goal_list)),
            "{task}", task)

(***************************************************************************)
(* Line 86: max_tokens=(token_limit - total_tokens - 100)                  *)
(***************************************************************************)
\* Variant: the 100-token reserve is forgotten.
MaxTokensNoReserve(limit, total) == limit - total

MaxTokens(limit, total) == limit - total - Reserve

(***************************************************************************)
(* Line 89: the arguments of resource_manager.write_file.                  *)
(***************************************************************************)
\* Variant: the text returned to the caller is what gets written.
WriteFileArgsWithSuffix(file_name, content) ==
    [file_name |-> file_name, content |-> content \o SuccessSuffix]

WriteFileArgs(file_name, content) ==
    [file_name |-> file_name, content |-> content]

(***************************************************************************)
(* Lines 90-93: the response after write_file returned a string.           *)
(***************************************************************************)
\* Variant: the success suffix is dropped.
ResponseNoSuffix(content, written) ==
    IF ~StartsWith(written, "Error") THEN content ELSE written

\* Variant: the writer's error string is wrapped like a caught exception.
ResponseWrapped(content, written) ==
    IF ~StartsWith(written, "Error")
    THEN content \o SuccessSuffix
    ELSE ErrorPrefix \o written

Response(content, written) ==
    IF ~StartsWith(written, "Error")
    THEN content \o SuccessSuffix
    ELSE written

(***************************************************************************)
(* Line 97: f"Error generating specification: {e}"                         *)
(***************************************************************************)
\* Variant: an error string that does not begin with "Error".
ErrorResponseFailed(text) == "Failed to generate specification: " \o text

ErrorResponse(text) == ErrorPrefix \o text

(***************************************************************************)
(* The inputs of one execution and the outcomes of the collaborators.      *)
(***************************************************************************)
GoalTexts == {"make a cli", "{task}"}

GoalLists == UNION {[1..n -> GoalTexts] : n \in 0..MaxGoals}

TaskDescriptions == {Str("write the parser"), Str("{goals}"), None}

FileNames == {"spec.md", "design/spec.txt"}

Models == {"gpt-4"}

TokenValues == {k * (Reserve \div 2) : k \in 0..MaxTokenSteps}

Contents == {"SPEC", "", "Error handling is part of the program."}

WriteResults ==
    {Str("spec.md saved successfully"), Str(""), Str("Err"), Str("Error"),
     Str("Error write_file: disk full"), None}

ErrTexts == {"boom", ""}

TheLlm == [t |-> "BaseLlm"]

TheResourceManager == [t |-> "ResourceManager"]

VARIABLES
    goals,            \* self.goals
    llm,              \* self.llm
    resource_manager, \* self.resource_manager
    task_description, \* argument
    spec_file_name,   \* argument
    pc,               \* the statement about to run
    messages,         \* local, line 82
    model,            \* the value of self.llm.get_model() being passed on
    total_tokens,     \* local, line 84
    token_limit,      \* local, line 85
    result,           \* local, line 86
    write_result,     \* local, line 89
    e,                \* the exception caught at line 95, with the step that raised it
    ret,              \* the value returned to the caller
    chat_calls,       \* the calls llm.chat_completion has received
    write_calls       \* the calls resource_manager.write_file has received

inputs == <<goals, llm, resource_manager, task_description, spec_file_name>>

vars ==
    <<goals, llm, resource_manager, task_description, spec_file_name, pc,
      messages, model, total_tokens, token_limit, result, write_result, e, ret,
      chat_calls, write_calls>>

Init ==
    /\ goals \in GoalLists
    /\ llm \in {TheLlm, None}
    /\ resource_manager \in {TheResourceManager, None}
    /\ task_description \in TaskDescriptions
    /\ spec_file_name \in FileNames
    /\ pc = "prompt"
    /\ messages = <<>>
    /\ model = None
    /\ total_tokens = None
    /\ token_limit = None
    /\ result = None
    /\ write_result = None
    /\ e = None
    /\ ret = None
    /\ chat_calls = <<>>
    /\ write_calls = <<>>

(***************************************************************************)
(* Lines 66, 95: a statement of the try block raises an Exception with     *)
(* str(e) = text; control passes to the except clause.                     *)
(***************************************************************************)
\* Variant: the statement lies outside the try block.
RaiseUncaught(text) ==
    /\ e' = [t |-> "Exception", v |-> text, at |-> pc]
    /\ pc' = "propagated"

Raise(text) ==
    /\ e' = [t |-> "Exception", v |-> text, at |-> pc]
    /\ pc' = "except"

(***************************************************************************)
(* Lines 67-82: fill the template and build the message list.              *)
(***************************************************************************)
BuildPrompt ==
    /\ pc = "prompt"
    /\ \/ /\ task_description.t = "str"
          /\ messages' =
                 <<[role |-> "system",
                    content |-> FillPrompt(goals, task_description.v)]>>
          /\ pc' = "get_model_count"
          /\ UNCHANGED e
       \/ /\ task_description.t # "str"
          /\ Raise("replace() argument 2 must be str, not None")
          /\ UNCHANGED messages
    /\ UNCHANGED <<inputs, model, total_tokens, token_limit, result,
                   write_result, ret, chat_calls, write_calls>>

(***************************************************************************)
(* self.llm.get_model(), evaluated as an argument at lines 84 and 85.      *)
(***************************************************************************)
GetModel(here, next) ==
    /\ pc = here
    /\ \/ /\ llm = None
          /\ Raise("'NoneType' object has no attribute 'get_model'")
          /\ UNCHANGED model
       \/ /\ llm # None
          /\ \E m \in Models : model' = Str(m)
          /\ pc' = next
          /\ UNCHANGED e
       \/ /\ llm # None
          /\ \E err \in ErrTexts : Raise(err)
          /\ UNCHANGED model
    /\ UNCHANGED <<inputs, messages, total_tokens, token_limit, result,
                   write_result, ret, chat_calls, write_calls>>

GetModelForCount == GetModel("get_model_count", "count")

GetModelForLimit == GetModel("get_model_limit", "limit")

(***************************************************************************)
(* Line 84: total_tokens = TokenCounter.count_message_tokens(messages, m)  *)
(***************************************************************************)
CountMessageTokens ==
    /\ pc = "count"
    /\ \/ /\ \E n \in TokenValues : total_tokens' = Num(n)
          /\ pc' = "get_model_limit"
          /\ UNCHANGED e
       \/ /\ \E err \in ErrTexts : Raise(err)
          /\ UNCHANGED total_tokens
    /\ UNCHANGED <<inputs, messages, model, token_limit, result, write_result,
                   ret, chat_calls, write_calls>>

(***************************************************************************)
(* Line 85: token_limit = TokenCounter.token_limit(m)                      *)
(***************************************************************************)
TokenLimit ==
    /\ pc = "limit"
    /\ \/ /\ \E n \in TokenValues : token_limit' = Num(n)
          /\ pc' = "chat"
          /\ UNCHANGED e
       \/ /\ \E err \in ErrTexts : Raise(err)
          /\ UNCHANGED token_limit
    /\ UNCHANGED <<inputs, messages, model, total_tokens, result, write_result,
                   ret, chat_calls, write_calls>>

(***************************************************************************)
(* Line 86: result = self.llm.chat_completion(messages, max_tokens=...)    *)
(* The call is received whatever its outcome: a dict with "content", a     *)
(* dict without it, or an Exception.                                       *)
(***************************************************************************)
\* Variant: a failed chat_completion is swallowed and the write goes ahead.
ChatCompletionSwallow ==
    /\ pc = "chat"
    /\ chat_calls' =
           Append(chat_calls,
                  [messages |-> messages,
                   max_tokens |-> MaxTokens(token_limit.v, total_tokens.v)])
    /\ \/ /\ \E c \in Contents : result' = Dict([content |-> c])
          /\ pc' = "write"
          /\ UNCHANGED e
       \/ /\ \E err \in ErrTexts :
                 e' = [t |-> "Exception", v |-> err, at |-> pc]
          /\ result' = Dict([content |-> ""])
          /\ pc' = "write"
    /\ UNCHANGED <<inputs, messages, model, total_tokens, token_limit,
                   write_result, ret, write_calls>>

ChatCompletion ==
    /\ pc = "chat"
    /\ chat_calls' =
           Append(chat_calls,
                  [messages |-> messages,
                   max_tokens |-> MaxTokens(token_limit.v, total_tokens.v)])
    /\ \/ /\ \E c \in Contents : result' = Dict([content |-> c])
          /\ pc' = "write"
          /\ UNCHANGED e
       \/ /\ result' = Dict([error |-> "ERROR_OPENAI"])
          /\ pc' = "write"
          /\ UNCHANGED e
       \/ /\ \E err \in ErrTexts : Raise(err)
          /\ UNCHANGED result
    /\ UNCHANGED <<inputs, messages, model, total_tokens, token_limit,
                   write_result, ret, write_calls>>

(***************************************************************************)
(* Line 89: write_result = self.resource_manager.write_file(               *)
(*              spec_file_name, result["content"])                         *)
(* Python evaluates self.resource_manager.write_file, then the arguments,  *)
(* then makes the call.                                                    *)
(***************************************************************************)
WriteFile ==
    /\ pc = "write"
    /\ \/ /\ resource_manager = None
          /\ Raise("'NoneType' object has no attribute 'write_file'")
          /\ UNCHANGED <<write_result, write_calls>>
       \/ /\ resource_manager # None
          /\ "content" \notin DOMAIN result.d
          /\ Raise("'content'")
          /\ UNCHANGED <<write_result, write_calls>>
       \/ /\ resource_manager # None
          /\ "content" \in DOMAIN result.d
          /\ write_calls' =
                 Append(write_calls,
                        WriteFileArgs(spec_file_name, result.d.content))
          /\ \/ /\ \E w \in WriteResults : write_result' = w
                /\ pc' = "respond"
                /\ UNCHANGED e
             \/ /\ \E err \in ErrTexts : Raise(err)
                /\ UNCHANGED write_result
    /\ UNCHANGED <<inputs, messages, model, total_tokens, token_limit, result,
                   ret, chat_calls>>

(***************************************************************************)
(* Lines 90-93: inspect write_result and return.                           *)
(***************************************************************************)
Respond ==
    /\ pc = "respond"
    /\ \/ /\ write_result.t # "str"
          /\ Raise("'NoneType' object has no attribute 'startswith'")
          /\ UNCHANGED ret
       \/ /\ write_result.t = "str"
          /\ ret' = Str(Response(result.d.content, write_result.v))
          /\ pc' = "done"
          /\ UNCHANGED e
    /\ UNCHANGED <<inputs, messages, model, total_tokens, token_limit, result,
                   write_result, chat_calls, write_calls>>

(***************************************************************************)
(* Lines 95-97: except Exception as e: log it and return the error string. *)
(***************************************************************************)
\* Variant: the except clause retries the failed collaborator call.
HandleExceptionRetry ==
    /\ pc = "except"
    /\ IF e.at \in {"chat", "write"}
       THEN /\ pc' = e.at
            /\ UNCHANGED ret
       ELSE /\ ret' = Str(ErrorResponse(e.v))
            /\ pc' = "done"
    /\ UNCHANGED <<inputs, messages, model, total_tokens, token_limit, result,
                   write_result, e, chat_calls, write_calls>>

HandleException ==
    /\ pc = "except"
    /\ ret' = Str(ErrorResponse(e.v))
    /\ pc' = "done"
    /\ UNCHANGED <<inputs, messages, model, total_tokens, token_limit, result,
                   write_result, e, chat_calls, write_calls>>

Next ==
    \/ BuildPrompt
    \/ GetModelForCount
    \/ CountMessageTokens
    \/ GetModelForLimit
    \/ TokenLimit
    \/ ChatCompletion
    \/ WriteFile
    \/ Respond
    \/ HandleException

Spec == Init /\ [][Next]_vars

(***************************************************************************)
(* Properties.                                                             *)
(***************************************************************************)
Returned == pc = "done"

WriteReported == write_result.t = "str"

WriteSucceeded == WriteReported /\ ~StartsWith(write_result.v, "Error")

WriteFailed == WriteReported /\ StartsWith(write_result.v, "Error")

StepsBeforeWrite ==
    {"prompt", "get_model_count", "count", "get_model_limit", "limit", "chat"}

\* C1: when nothing raised and write_file returned a string that does not
\* start with "Error", the returned string is exactly result["content"]
\* followed by "Specification generated and saved successfully".
C1_SuccessReturnsContentPlusSuffix ==
    (Returned /\ e = None /\ WriteSucceeded)
        => ret = Str(result.d.content
                         \o "Specification generated and saved successfully")

C1_Witness ==
    /\ Returned
    /\ e = None
    /\ write_result = Str("Err")
    /\ result.d.content = "SPEC"
    /\ ret = Str("SPECSpecification generated and saved successfully")

\* C2: when write_file returned a string that starts with "Error", the
\* returned string is that string verbatim: nothing of the LLM content or the
\* success suffix is added and it is not wrapped in the
\* "Error generating specification: " prefix.
C2_WriterErrorReturnedVerbatim ==
    (Returned /\ WriteFailed)
        => /\ ret = write_result
           /\ ret.v # "Error generating specification: " \o write_result.v
           /\ ret.v # result.d.content
                          \o "Specification generated and saved successfully"

C2_Witness ==
    /\ Returned
    /\ write_result = Str("Error write_file: disk full")
    /\ result.d.content = "SPEC"
    /\ ret = Str("Error write_file: disk full")

\* C3: no Exception raised by a step leaves _execute: once a step has raised,
\* control is in the except clause or the execution has returned, and the
\* returned string is "Error generating specification: " followed by str(e).
C3_RaisedErrorIsReturnedAsString ==
    /\ pc # "propagated"
    /\ e # None =>
           /\ pc \in {"except", "done"}
           /\ Returned => ret = Str("Error generating specification: " \o e.v)

C3_Witness ==
    /\ Returned
    /\ e # None
    /\ e.at = "write"
    /\ e.v = "'content'"
    /\ ret = Str("Error generating specification: 'content'")

\* C4: in one execution chat_completion is called at most once and write_file
\* is called at most once, whatever either call's outcome.
C4_NoRetries ==
    /\ Len(chat_calls) <= 1
    /\ Len(write_calls) <= 1

C4_Witness ==
    /\ Returned
    /\ e # None
    /\ e.at = "write"
    /\ e.v = "boom"
    /\ Len(chat_calls) = 1
    /\ Len(write_calls) = 1

\* C5: the max_tokens passed to chat_completion is
\* token_limit - total_tokens - 100, so total_tokens + max_tokens is exactly
\* 100 below the token limit and never above it.
C5_MaxTokensFitsBudget ==
    \A i \in DOMAIN chat_calls :
        /\ chat_calls[i].max_tokens = token_limit.v - total_tokens.v - 100
        /\ total_tokens.v + chat_calls[i].max_tokens = token_limit.v - 100
        /\ total_tokens.v + chat_calls[i].max_tokens <= token_limit.v

C5_Witness ==
    /\ Len(chat_calls) = 1
    /\ total_tokens = Num(50)
    /\ token_limit = Num(150)
    /\ chat_calls[1].max_tokens = 0

\* C6: write_file is called only after the prompt was built, the tokens were
\* counted and chat_completion returned a result in this execution; when a
\* step before the write raised, write_file is never called.
C6_WriteOnlyAfterChatReturned ==
    /\ write_calls # <<>> =>
           /\ messages # <<>>
           /\ total_tokens # None
           /\ token_limit # None
           /\ Len(chat_calls) = 1
           /\ result # None
    /\ (e # None /\ e.at \in StepsBeforeWrite) => write_calls = <<>>

C6_Witness ==
    /\ Returned
    /\ e # None
    /\ e.at = "chat"
    /\ Len(chat_calls) = 1
    /\ write_calls = <<>>

\* C7: write_file is called with the caller's spec_file_name and exactly
\* result["content"]; on success the returned text minus the suffix is the
\* text handed to write_file.
C7_WriteFileGetsNameAndContent ==
    /\ \A i \in DOMAIN write_calls :
           /\ write_calls[i].file_name = spec_file_name
           /\ write_calls[i].content = result.d.content
    /\ (Returned /\ e = None /\ WriteSucceeded) =>
           /\ Len(ret.v) >= Len(SuccessSuffix)
           /\ SubSeq(ret.v, 1, Len(ret.v) - Len(SuccessSuffix))
                  = write_calls[1].content

C7_Witness ==
    /\ Returned
    /\ e = None
    /\ WriteSucceeded
    /\ spec_file_name = "design/spec.txt"
    /\ write_calls = <<[file_name |-> "design/spec.txt", content |-> "SPEC"]>>

\* C8: chat_completion is never called with a max_tokens that is zero or
\* negative.
C8_MaxTokensPositive ==
    \A i \in DOMAIN chat_calls : chat_calls[i].max_tokens > 0

\* C9: the request is one system message whose content is the template with
\* {goals} replaced by the formatted goal list and {task} replaced by
\* task_description; every goal and the task description appear verbatim in
\* it.
C9_PromptHoldsGoalsAndTaskVerbatim ==
    \A i \in DOMAIN chat_calls :
        /\ Len(chat_calls[i].messages) = 1
        /\ chat_calls[i].messages[1].role = "system"
        /\ chat_calls[i].messages[1].content =
               TemplateIntro \o add_list_items_to_string(goals) \o TemplateBody
                   \o task_description.v \o TemplateEnd
        /\ Contains(chat_calls[i].messages[1].content, task_description.v)
        /\ \A g \in DOMAIN goals :
               Contains(chat_calls[i].messages[1].content, goals[g])

\* C10: an execution that returns without a successful write (an exception
\* was raised, or write_file returned an error string) returns a string that
\* begins with "Error"; a returned string that does not begin with "Error"
\* comes only after chat_completion returned content and write_file
\* reported success.
C10_NoSuccessMeansErrorString ==
    Returned =>
        /\ ret.t = "str"
        /\ (e # None \/ ~WriteSucceeded) => StartsWith(ret.v, "Error")
        /\ ~StartsWith(ret.v, "Error") =>
               /\ e = None
               /\ WriteSucceeded
               /\ Len(write_calls) = 1
               /\ "content" \in DOMAIN result.d

C10_Witness ==
    /\ Returned
    /\ e # None
    /\ e.at = "respond"
    /\ write_result = None
    /\ Len(write_calls) = 1
    /\ StartsWith(ret.v, "Error")

====
